---- MODULE Spec2Model ----
(***************************************************************************)
(* A model of obspy/signal/array_analysis.py: the sliding-window loops of   *)
(* array_processing and beamforming, get_stream_offsets, the slowness grid  *)
(* and backazimuth arithmetic, and the input validation of                  *)
(* array_rotation_strain.                                                   *)
(*                                                                          *)
(* Units.  Time is counted in ticks of 1/4 s, so a trace sampled at fs Hz   *)
(* (fs = 1 or 2) has a sample period of 4/fs ticks.  Slowness is counted in *)
(* units of 1/4 s/km and station coordinates in km, so that a slowness      *)
(* times a coordinate is a delay in ticks.  Frequencies are counted in      *)
(* units of 1/8 Hz.  Angles are counted in millidegrees.  All arithmetic is *)
(* exact; int() of a quotient is Trunc.                                     *)
(*                                                                          *)
(* The name get_timeshift used by array_processing and beamforming is taken *)
(* to be the function defined at lines 321-363 of the file (it takes no     *)
(* self and is the only definition of that name).                           *)
(***************************************************************************)
EXTENDS Integers, Sequences, FiniteSets, TLC

VARIABLES
    arg,               \* the arguments of the call under study
    pc,                \* position of the call
    err,               \* the exception that ended the call ("" if none)
    warns,             \* the warnings issued so far
    grdpts_x, grdpts_y,
    geometry,          \* <<>> until get_geometry has returned
    time_shift_table,  \* <<>> until get_timeshift has returned
    spoint, epoint,    \* <<>> until get_stream_offsets has returned
    nsamp, nstep, nf,
    detrended,         \* stream.detrend() has changed the caller's data
    newstart, offset, count, eotr,
    res,               \* the list of result records
    stored,            \* the third argument of every call of store so far
    relpow, slow_x, slow_y, slow2, baz,   \* locals of the last loop body
    beam_max,          \* "unbound" until the loop body assigns it
    padded,            \* the values that filled up short windows so far
    ret                \* what a call of a function without a loop returned

prepv == <<grdpts_x, grdpts_y, geometry, time_shift_table, spoint, epoint,
           nsamp, nstep, nf, detrended>>
loopv == <<newstart, offset, count, eotr, res, stored>>
localv == <<relpow, slow_x, slow_y, slow2, baz, beam_max>>
vars == <<arg, pc, err, warns, prepv, loopv, localv, padded, ret>>

(***************************************************************************)
(* Bounds of the model.                                                    *)
(***************************************************************************)
MaxCount == 3      \* windows recorded of a loop that never advances
MaxSpan == 2       \* largest slm - sll of a slowness axis
MaxDuration == 3   \* largest etime - stime, in seconds
MaxNa == 4         \* largest number of stations of array_rotation_strain
MaxStart == 4      \* latest start of a trace given to get_stream_offsets, in ticks
MaxSeam == 8       \* most quarter degrees between a station and the meridian of 180
MaxChannels == 3   \* most channels of an inventory given to _get_geometry
MaxCoord == 2      \* largest station coordinate given to get_geometry, in km

(***************************************************************************)
(* Arithmetic helpers.                                                     *)
(***************************************************************************)
Max2(a, b) == IF a >= b THEN a ELSE b
Min2(a, b) == IF a <= b THEN a ELSE b
SetMax(S) == CHOOSE m \in S : \A s \in S : s <= m
SetMin(S) == CHOOSE m \in S : \A s \in S : m <= s

\* int(a / b) for b > 0: Python's int() truncates towards zero.
Trunc(a, b) == IF a >= 0 THEN a \div b ELSE -((-a) \div b)

\* a % m of Python for m < 0: the result has the sign of the divisor.
PyModNeg(a, m) == -((-a) % (-m))

\* tr.stats.delta in ticks for tr.stats.sampling_rate = fs.
Delta(fs) == 4 \div fs

\* tr.stats.endtime of a trace [rate, starttime, npts].
EndTime(tr) == tr.starttime + (tr.npts - 1) * Delta(tr.rate)

\* len(data[a:b]) for len(data) = n, with Python's treatment of negative
\* and out-of-range slice bounds.
SliceBound(n, k) == IF k < 0 THEN Max2(k + n, 0) ELSE Min2(k, n)
SliceLen(n, a, b) == Max2(SliceBound(n, b) - SliceBound(n, a), 0)

(***************************************************************************)
(* The slowness grid and the backazimuth (array_processing 1910-1911 and   *)
(* 2005-2013, beamforming 2115-2116 and 2270-2278).                        *)
(***************************************************************************)
\* The grid count without the rounding term 0.5.
GridPointsNoRound(sll, slm, sl_s) == Trunc((slm - sll) + sl_s, sl_s)

\* int(((slm - sll) / sl_s + 0.5) + 1)
GridPoints(sll, slm, sl_s) == Trunc(2 * (slm - sll) + 3 * sl_s, 2 * sl_s)

\* sll + ix * sl_s
SlowAt(sll, ix, sl_s) == sll + ix * sl_s

\* atan(p / q) in millidegrees for 0 <= p <= q, q > 0, to within 0.1 degree
\* (exact at p = 0 and p = q).
AtanMilli(p, q) ==
    (45000 * p * q * q + p * (q - p) * (14020 * q + 3800 * p)) \div (q * q * q)

\* 180 * math.atan2(y, x) / math.pi in millidegrees: a value of [-180, 180]
\* degrees, 0 at the origin and +180 on the negative x axis.
Atan2Milli(y, x) ==
    LET ay == IF y >= 0 THEN y ELSE -y
        ax == IF x >= 0 THEN x ELSE -x
        a == IF ax = 0 /\ ay = 0 THEN 0
             ELSE IF ay <= ax THEN AtanMilli(ay, ax)
             ELSE 90000 - AtanMilli(ax, ay)
        full == IF x >= 0 THEN a ELSE 180000 - a
    IN IF y >= 0 THEN full ELSE -full

\* azimut = 180 * math.atan2(slow_x, slow_y) / math.pi
Azimut(sx, sy) == Atan2Milli(sx, sy)
Baz(sx, sy) == PyModNeg(Azimut(sx, sy), -360000) + 180000

\* slow ** 2 for slow = np.sqrt(slow_x ** 2 + slow_y ** 2); the value 0
\* stands for every slow below 1e-8, which the code replaces by 1e-8.
SlowSq(sx, sy) == sx * sx + sy * sy

\* 1. / slow > vel_thres, for vel_thres in km/s: 1/slow is 4/sqrt(q) km/s,
\* and 1e8 km/s when slow was replaced by 1e-8.
VelAbove(q, vel_thres) ==
    IF vel_thres <= 0 \/ q = 0 THEN TRUE ELSE vel_thres * vel_thres * q < 16
\* The two thresholds joined by 'or'.
EmitsEither(rp, q, semb_thres, vel_thres) ==
    rp > semb_thres \/ VelAbove(q, vel_thres)

\* relpow > semb_thres and 1. / slow > vel_thres
Emits(rp, q, semb_thres, vel_thres) == rp > semb_thres /\ VelAbove(q, vel_thres)

(***************************************************************************)
(* get_geometry for coordsys 'xy' and get_timeshift without static_3D.     *)
(***************************************************************************)
RECURSIVE SeqSum(_)
SeqSum(s) == IF s = <<>> THEN 0 ELSE Head(s) + SeqSum(Tail(s))

\* geometry[:, c].mean(); the coordinates of the model have integer means.
ColMean(coords, c) ==
    SeqSum([i \in 1..Len(coords) |-> coords[i][c]]) \div Len(coords)

\* The elevations left as they are.
GetGeometryFlat(coords) ==
    [i \in 1..Len(coords) |->
        <<coords[i][1] - ColMean(coords, 1),
          coords[i][2] - ColMean(coords, 2),
          coords[i][3]>>]

\* geometry[:, c] -= geometry[:, c].mean() for c = 0, 1, 2
GetGeometry(coords) ==
    [i \in 1..Len(coords) |->
        <<coords[i][1] - ColMean(coords, 1),
          coords[i][2] - ColMean(coords, 2),
          coords[i][3] - ColMean(coords, 3)>>]

\* time_shift_tbl[i, k, l] = (sll_x + k*sl_s) * x_i + (sll_y + l*sl_s) * y_i
GetTimeshift(geom, sll_x, sll_y, sl_s, gx, gy) ==
    [t \in (1..Len(geom)) \X (0..(gx - 1)) \X (0..(gy - 1)) |->
        SlowAt(sll_x, t[2], sl_s) * geom[t[1]][1]
        + SlowAt(sll_y, t[3], sl_s) * geom[t[1]][2]]

TableValues(tbl) == {tbl[t] : t \in DOMAIN tbl}

\* int(time_shift_table[i, x, y] * fs + 0.5): the delay in samples
ShiftSamples(t, fs) == Trunc(2 * t + Delta(fs), 2 * Delta(fs))

(***************************************************************************)
(* get_stream_offsets (1673-1717).                                         *)
(***************************************************************************)
\* the latest start time and the earliest end time of the traces
Slatest(stream) == SetMax({stream[i].starttime : i \in 1..Len(stream)})
Eearliest(stream) == SetMin({EndTime(stream[i]) : i \in 1..Len(stream)})

\* A start exactly half a sample period early refused as well.
StartTooEarlyOrEqual(stream, stime) ==
    2 * (Slatest(stream) - stime) >= Delta(stream[1].rate)

\* (slatest - stime) > stream[0].stats.delta / 2.
StartTooEarly(stream, stime) ==
    2 * (Slatest(stream) - stime) > Delta(stream[1].rate)

\* (eearliest - etime) < -stream[0].stats.delta / 2.
EndTooLate(stream, etime) ==
    2 * (Eearliest(stream) - etime) < -Delta(stream[1].rate)

\* the integer part that math.modf gives of a difference of two times: the
\* difference is in seconds.
ModfInt(d) == Trunc(d, 4)
ModfFrac(d) == d - 4 * ModfInt(d)

\* spoint[i] = int(ddummy) + int((stime - slatest) / delta + 1.)
SpointOf(stream, stime, i) ==
    ModfInt(Slatest(stream) - stream[i].starttime)
    + Trunc(stime - Slatest(stream) + Delta(stream[i].rate), Delta(stream[i].rate))

\* epoint[i] = int(ddummy) + int((eearliest - etime) / delta + 1.)
EpointOf(stream, etime, i) ==
    ModfInt(EndTime(stream[i]) - Eearliest(stream))
    + Trunc(Eearliest(stream) - etime + Delta(stream[i].rate), Delta(stream[i].rate))

\* frac > stream[i].stats.delta * 0.25, frac in seconds
StartDrift(stream, i) ==
    4 * ModfFrac(Slatest(stream) - stream[i].starttime) > Delta(stream[i].rate)

OffsetWarnings(stream) ==
    IF \E i \in 1..Len(stream) : StartDrift(stream, i)
    THEN {"start times differ by more than 25% of a sample"} ELSE {}

(***************************************************************************)
(* The FFT plan of array_processing (1943-1950).                           *)
(***************************************************************************)
RECURSIVE Pow2AtLeast(_, _)
Pow2AtLeast(p, n) == IF p >= n THEN p ELSE Pow2AtLeast(2 * p, n)

\* nextpow2(nsamp) for nsamp >= 1
NextPow2(n) == Pow2AtLeast(1, n)

\* int(frq / float(deltaf) + 0.5) with deltaf = fs / float(nfft)
BinOf(frq, fs, nfft) == Trunc(2 * frq * nfft + 8 * fs, 16 * fs)

Nlow(frqlow, fs, nfft) == Max2(1, BinOf(frqlow, fs, nfft))
Nhigh(frqhigh, fs, nfft) == Min2(nfft \div 2 - 1, BinOf(frqhigh, fs, nfft))
Nf(frqlow, frqhigh, fs, nfft) ==
    Nhigh(frqhigh, fs, nfft) - Nlow(frqlow, fs, nfft) + 1

(***************************************************************************)
(* The calls of array_processing and beamforming that are explored.        *)
(***************************************************************************)
\* Only the first trace is looked at.
RatesEqualFirstOnly(stream) == stream[1].rate = stream[1].rate

\* stream.select(sampling_rate=fs) keeps every trace
RatesEqual(stream) ==
    \A i \in 1..Len(stream) : stream[i].rate = stream[1].rate

\* A trace that starts at tick `start` and holds data up to the end of the
\* longest range requested from tick 0.
TraceOf(fs, start) ==
    [rate |-> fs, starttime |-> start,
     npts |-> (4 * MaxDuration - start) \div Delta(fs) + 1]

Rates == {1, 2}
\* the methods of beamforming; "XXX": no supported method.  The method of
\* array_processing is 0, written "bf" (0 == bf, 1 == capon).
Methods == {"DLS", "PWS", "SWP", "XXX"}
Timestamps == {"julsec", "mlabday", "utc"}  \* "utc": no supported convention
WinFracs == {1, 2, 4}                       \* win_frac in quarters
WinLens == {-4, 0} \cup {2 * w : w \in 2..(2 * MaxDuration)}
RelPows == {1, 2}                           \* values of the power maximum
STimes == {-4, 0, 4}                        \* stime; the traces start at 0

\* two stations 2 km apart on the x axis
LineCoords == << <<0, 0, 0>>, <<2, 0, 0>> >>

CallOf(f, m, st, gr, wl, wf, t0, dur, th, ts, cb) ==
    [func |-> f, method |-> m, stream |-> st, coords |-> LineCoords,
     sll_x |-> gr[1], slm_x |-> gr[2], sll_y |-> gr[3], slm_y |-> gr[4],
     sl_s |-> gr[5], win_len |-> wl, win_frac |-> wf,
     stime |-> t0, etime |-> t0 + 4 * dur,
     semb_thres |-> th[1], vel_thres |-> th[2],
     frqlow |-> 1, frqhigh |-> 4, timestamp |-> ts, store |-> cb]

Streams == {<<TraceOf(r1, 0), TraceOf(r2, 0)>> : r1 \in Rates, r2 \in Rates}

\* Calls that vary the window, the range and the thresholds over one grid.
WindowCalls ==
    {CallOf("array_processing", "bf", st, <<-1, 0, -1, -1, 1>>, wl, wf, t0, dur,
            <<1, vt>>, ts, cb) :
        st \in Streams, wl \in WinLens, wf \in WinFracs, t0 \in STimes,
        dur \in 1..MaxDuration, vt \in {0, 3}, ts \in Timestamps,
        cb \in BOOLEAN}
    \cup
    {CallOf("beamforming", m, st, <<-1, 0, -1, -1, 1>>, wl, wf, t0, dur,
            <<0, 0>>, ts, cb) :
        m \in Methods, st \in Streams, wl \in WinLens, wf \in WinFracs,
        t0 \in STimes, dur \in 1..MaxDuration, ts \in Timestamps,
        cb \in BOOLEAN}

\* Calls that vary the slowness grid, each axis on its own, over one range.
Grids ==
    {<<lx, lx + wx, ly, ly + wy, st>> :
        lx \in (-MaxSpan)..0, wx \in 0..MaxSpan,
        ly \in (-MaxSpan)..0, wy \in 0..MaxSpan, st \in {1, 2}}

GridCalls ==
    {CallOf(fm[1], fm[2], <<TraceOf(r, 0), TraceOf(r, 0)>>, gr, wl, 4, 0,
            MaxDuration, <<1, 3>>, "julsec", FALSE) :
        fm \in {<<"array_processing", "bf">>, <<"beamforming", "DLS">>},
        r \in Rates, gr \in Grids, wl \in {-4, 4 * MaxDuration}}

Fs == arg.stream[1].rate

InitCall(calls) ==
    /\ arg \in calls
    /\ pc = "start" /\ err = "" /\ warns = {}
    /\ grdpts_x = 0 /\ grdpts_y = 0
    /\ geometry = <<>> /\ time_shift_table = <<>>
    /\ spoint = <<>> /\ epoint = <<>>
    /\ nsamp = 0 /\ nstep = 0 /\ nf = 0 /\ detrended = FALSE
    /\ newstart = 0 /\ offset = 0 /\ count = 0 /\ eotr = TRUE
    /\ res = <<>> /\ stored = <<>>
    /\ relpow = 0 /\ slow_x = 0 /\ slow_y = 0 /\ slow2 = 0 /\ baz = 0
    /\ beam_max = "unbound"
    /\ padded = {} /\ ret = <<>>

Init == InitCall(WindowCalls)
GridInit == InitCall(GridCalls)

(***************************************************************************)
(* array_processing 1903-1908, beamforming 2106-2111.                      *)
(***************************************************************************)
CheckRates ==
    /\ pc = "start"
    /\ arg.func \in {"array_processing", "beamforming"}
    /\ IF RatesEqual(arg.stream)
       THEN pc' = "prepare" /\ err' = err
       ELSE pc' = "raised" /\ err' = "ValueError: sampling rates"
    /\ UNCHANGED <<arg, padded, ret, warns, prepv, loopv, localv>>

(***************************************************************************)
(* array_processing 1910-1963: everything between the rate check and the   *)
(* loop.                                                                   *)
(***************************************************************************)
\* nsamp and nstep of array_processing (1935-1941)
NsampAP(a) ==
    IF a.win_len < 0 THEN Trunc(a.etime - a.stime, Delta(a.stream[1].rate))
    ELSE Trunc(a.win_len, Delta(a.stream[1].rate))
NstepAP(a, ns) == IF a.win_len < 0 THEN 1 ELSE Trunc(ns * a.win_frac, 4)

PrepareAP ==
    /\ pc = "prepare" /\ arg.func = "array_processing"
    /\ LET gx == GridPoints(arg.sll_x, arg.slm_x, arg.sl_s)
           gy == GridPoints(arg.sll_y, arg.slm_y, arg.sl_s)
           geom == GetGeometry(arg.coords)
           tbl == GetTimeshift(geom, arg.sll_x, arg.sll_y, arg.sl_s, gx, gy)
           ns == NsampAP(arg)
           nfft == NextPow2(ns)
           bins == Nf(arg.frqlow, arg.frqhigh, Fs, nfft)
           covered == /\ ~StartTooEarly(arg.stream, arg.stime)
                      /\ ~EndTooLate(arg.stream, arg.etime)
       IN /\ grdpts_x' = gx /\ grdpts_y' = gy
          /\ geometry' = geom /\ time_shift_table' = tbl
          /\ IF ~covered
             THEN /\ pc' = "raised"
                  /\ err' = IF StartTooEarly(arg.stream, arg.stime)
                            THEN "ValueError: start-time"
                            ELSE "ValueError: end-time"
                  /\ UNCHANGED <<warns, spoint, epoint, nsamp, nstep, nf,
                                 newstart>>
             ELSE /\ spoint' = [i \in 1..Len(arg.stream) |->
                                   SpointOf(arg.stream, arg.stime, i)]
                  /\ epoint' = [i \in 1..Len(arg.stream) |->
                                   EpointOf(arg.stream, arg.etime, i)]
                  /\ warns' = warns \cup OffsetWarnings(arg.stream)
                  /\ nsamp' = ns /\ nstep' = NstepAP(arg, ns)
                  /\ IF ns <= 0
                     THEN \* nextpow2 takes the logarithm of nsamp
                          /\ pc' = "raised" /\ err' = "ValueError: nextpow2"
                          /\ UNCHANGED <<nf, newstart>>
                     ELSE /\ nf' = bins
                          /\ IF bins < 0
                             THEN \* np.empty((nf, ...)) with nf < 0
                                  /\ pc' = "raised"
                                  /\ err' = "ValueError: negative dimensions"
                                  /\ UNCHANGED newstart
                             ELSE /\ pc' = "loop" /\ err' = err
                                  /\ newstart' = arg.stime
    /\ UNCHANGED <<arg, padded, ret, detrended, offset, count, eotr, res, stored, localv>>

(***************************************************************************)
(* beamforming 2115-2159.                                                  *)
(***************************************************************************)
\* nsamp of beamforming (2142-2146)
NsampBF(a, mini, maxi) ==
    IF a.win_len < 0
    THEN Trunc((a.etime - maxi) - (a.stime - mini), Delta(a.stream[1].rate))
    ELSE Trunc(a.win_len, Delta(a.stream[1].rate))
\* The step taken to be the whole window.
NstepWholeWindow(a, ns) == ns

NstepBF(a, ns) == Trunc(ns * a.win_frac, 4)

\* Only a negative count of samples stops the run.
WindowNegative(ns) == ns < 0
\* if nsamp <= 0: ... quit()
WindowTooSmall(ns) == ns <= 0

PrepareBF ==
    /\ pc = "prepare" /\ arg.func = "beamforming"
    /\ LET gx == GridPoints(arg.sll_x, arg.slm_x, arg.sl_s)
           gy == GridPoints(arg.sll_y, arg.slm_y, arg.sl_s)
           geom == GetGeometry(arg.coords)
           tbl == GetTimeshift(geom, arg.sll_x, arg.sll_y, arg.sl_s, gx, gy)
           mini == SetMin(TableValues(tbl))
           maxi == SetMax(TableValues(tbl))
           st == arg.stime - mini
           et == arg.etime - maxi
           ns == NsampBF(arg, mini, maxi)
           covered == /\ ~StartTooEarly(arg.stream, st)
                      /\ ~EndTooLate(arg.stream, et)
       IN /\ grdpts_x' = gx /\ grdpts_y' = gy
          /\ geometry' = geom /\ time_shift_table' = tbl
          /\ IF ~covered
             THEN /\ pc' = "raised"
                  /\ err' = IF StartTooEarly(arg.stream, st)
                            THEN "ValueError: start-time"
                            ELSE "ValueError: end-time"
                  /\ UNCHANGED <<warns, spoint, epoint, nsamp, nstep,
                                 detrended, newstart>>
             ELSE /\ spoint' = [i \in 1..Len(arg.stream) |->
                                   SpointOf(arg.stream, st, i)]
                  /\ epoint' = [i \in 1..Len(arg.stream) |->
                                   EpointOf(arg.stream, et, i)]
                  /\ warns' = warns \cup OffsetWarnings(arg.stream)
                  /\ nsamp' = ns
                  /\ IF WindowTooSmall(ns)
                     THEN \* 'Data window too small for slowness grid': quit()
                          /\ pc' = "quit" /\ err' = "SystemExit"
                          /\ UNCHANGED <<nstep, detrended, newstart>>
                     ELSE /\ nstep' = NstepBF(arg, ns)
                          /\ detrended' = TRUE
                          /\ pc' = "loop" /\ err' = err
                          /\ newstart' = arg.stime
    /\ UNCHANGED <<arg, padded, ret, nf, offset, count, eotr, res, stored, localv>>

(***************************************************************************)
(* The loop body.                                                          *)
(***************************************************************************)
\* numpy accepts (a - a.mean()) * tap and beam += a * coh for an a of m
\* samples and a tap or coh of n samples when m = n or one of them is 1
Broadcasts(m, n) == m = n \/ m = 1 \/ n = 1

\* len(tr.data[spoint[i] + offset : spoint[i] + offset + nsamp])
WindowLen(i) ==
    SliceLen(arg.stream[i].npts, spoint[i] + offset, spoint[i] + offset + nsamp)

\* np.pad(shifted, widths, 'constant', constant_values=values): the values
\* written before and after the data, for the widths that are not 0
PadFill(widths, values) == {values[i] : i \in {j \in 1..2 : widths[j] > 0}}

\* len(stream[i].data[s + offset : s + nsamp + offset]) for
\* s = spoint[i] + int(time_shift_table[i, x, y] * fs + 0.5)
ShiftedLen(i, x, y) ==
    LET s == spoint[i] + ShiftSamples(time_shift_table[<<i, x, y>>], Fs)
    IN SliceLen(arg.stream[i].npts, s + offset, s + nsamp + offset)

\* The loop repeats one window for ever and has done so MaxCount times:
\* the model stops counting.
Stuck == nstep = 0 /\ count >= MaxCount
\* (newstart + (nsamp + nstep) / fs) > etime
NextWindowLate(ns, nst) == newstart + (ns + nst) * Delta(Fs) > arg.etime

\* The start of the window left where it is.
AdvanceKeepStart ==
    /\ eotr' = ~NextWindowLate(nsamp, nstep)
    /\ offset' = offset + nstep
    /\ newstart' = newstart
\* eotr, offset and newstart at the end of the body (2019-2023, 2283-2287)
Advance ==
    /\ eotr' = ~NextWindowLate(nsamp, nstep)
    /\ offset' = offset + nstep
    /\ newstart' = newstart + nstep * Delta(Fs)

\* the exception leaves the loop with everything as it is
RaiseInLoop(e) ==
    /\ pc' = "raised" /\ err' = e
    /\ UNCHANGED <<arg, padded, ret, warns, prepv, loopv>>

\* A time stamp in seconds, as the pair the converted time stamps are: no
\* whole days and the ticks.
Julsec(t) == <<0, t>>

\* The record of array_processing; abspow is not modelled.
RecordAP(t, rp, b, q) == [timestamp |-> t, relpow |-> rp, baz |-> b, slow2 |-> q]
\* The record of beamforming.
RecordBF(t, b, sx, sy, q) ==
    [timestamp |-> t, baz |-> b, slow_x |-> sx, slow_y |-> sy, slow2 |-> q]

\* The callback handed the number of the window counted from 1.
StoreCallFromOne(st, c) == Append(st, c + 1)
\* store(relpow_map, abspow_map, count), store(abspow_map, beam_max, count):
\* the window indices the callback has been given so far
StoreCall(st, c) == Append(st, c)

\* array_processing 1964-2023
WindowAP ==
    /\ pc = "loop" /\ eotr /\ arg.func = "array_processing"
    /\ IF \E i \in 1..Len(arg.stream) : ~Broadcasts(WindowLen(i), nsamp)
       THEN RaiseInLoop("ValueError: broadcast") /\ UNCHANGED localv
       ELSE \/ \* generalizedBeamformer returns a nonzero code
               RaiseInLoop("Exception: generalizedBeamforming")
               /\ UNCHANGED localv
            \/ \E ix \in 0..(grdpts_x - 1), iy \in 0..(grdpts_y - 1),
                  rp \in RelPows :
                 LET sx == SlowAt(arg.sll_x, ix, arg.sl_s)
                     sy == SlowAt(arg.sll_y, iy, arg.sl_s)
                     q == SlowSq(sx, sy)
                     b == Baz(sx, sy)
                 IN \/ \* store raises
                       /\ arg.store
                       /\ RaiseInLoop("store")
                       /\ relpow' = rp
                       /\ UNCHANGED <<slow_x, slow_y, slow2, baz, beam_max>>
                    \/ /\ pc' = pc /\ err' = err
                       /\ relpow' = rp /\ slow_x' = sx /\ slow_y' = sy
                       /\ slow2' = q /\ baz' = b
                       /\ stored' = IF arg.store /\ ~Stuck
                                    THEN StoreCall(stored, count) ELSE stored
                       /\ count' = IF Stuck THEN count ELSE count + 1
                       /\ res' = IF Emits(rp, q, arg.semb_thres, arg.vel_thres)
                                    /\ ~Stuck
                                 THEN Append(res, RecordAP(Julsec(newstart), rp, b, q))
                                 ELSE res
                       /\ Advance
                       /\ UNCHANGED <<arg, padded, ret, warns, prepv, beam_max>>

\* beamforming 2160-2287
WindowBF ==
    /\ pc = "loop" /\ eotr /\ arg.func = "beamforming"
    /\ LET cells == (1..Len(arg.stream)) \X (0..(grdpts_x - 1))
                    \X (0..(grdpts_y - 1))
           lens == {ShiftedLen(c[1], c[2], c[3]) : c \in cells}
       IN \/ \* SWP: np.zeros rejects the float nf, or tap is not defined
             /\ arg.method = "SWP"
             /\ \/ /\ pc' = "raised" /\ err' = "TypeError"
                   /\ UNCHANGED time_shift_table
                \/ /\ pc' = "raised" /\ err' = "NameError: tap"
                   /\ time_shift_table' =
                          [t \in DOMAIN time_shift_table |-> -time_shift_table[t]]
             /\ UNCHANGED <<arg, padded, ret, warns, grdpts_x, grdpts_y, geometry, spoint,
                            epoint, nsamp, nstep, nf, detrended, loopv, localv>>
          \/ \* PWS: hilbert of an empty window, or a short window in the sum
             /\ arg.method = "PWS"
             /\ \E m \in lens : ~Broadcasts(m, nsamp) \/ m = 0
             /\ RaiseInLoop("ValueError: window") /\ UNCHANGED localv
          \/ /\ arg.method # "SWP"
             /\ arg.method = "PWS" =>
                    \A m \in lens : Broadcasts(m, nsamp) /\ m # 0
             /\ \E ix \in 0..(grdpts_x - 1), iy \in 0..(grdpts_y - 1),
                   bm \in {"bound", beam_max} :
                  LET sx == SlowAt(arg.sll_x, ix, arg.sl_s)
                      sy == SlowAt(arg.sll_y, iy, arg.sl_s)
                      q == SlowSq(sx, sy)
                      b == Baz(sx, sy)
                      \* no grid point may have a power above 0, and no
                      \* branch runs for an unknown method
                      bmax == IF arg.method \in {"DLS", "PWS"} THEN bm
                              ELSE beam_max
                  IN /\ beam_max' = bmax
                     /\ \/ \* store(abspow_map, beam_max, count) fails
                           /\ arg.store
                           /\ IF bmax = "unbound"
                              THEN RaiseInLoop("UnboundLocalError: beam_max")
                              ELSE RaiseInLoop("store")
                           /\ UNCHANGED <<relpow, slow_x, slow_y, slow2, baz>>
                        \/ /\ arg.store => bmax = "bound"
                           /\ pc' = pc /\ err' = err
                           /\ slow_x' = sx /\ slow_y' = sy
                           /\ slow2' = q /\ baz' = b
                           /\ stored' = IF arg.store /\ ~Stuck
                                        THEN StoreCall(stored, count) ELSE stored
                           /\ count' = IF Stuck THEN count ELSE count + 1
                           /\ res' = IF Stuck THEN res
                                     ELSE Append(res,
                                              RecordBF(Julsec(newstart), b, sx, sy, q))
                           /\ padded' = padded \cup
                                  UNION {PadFill(<<0, nsamp - m>>, <<0, 1>>) :
                                            m \in {k \in lens : k < nsamp}}
                           /\ Advance
                           /\ UNCHANGED <<arg, ret, warns, prepv, relpow>>

\* res[:, 0] / (24. * 3600) + 719162 of a time in ticks: whole days and the
\* ticks of the day
Mlabday(t) == <<719162 + t \div 345600, t % 345600>>

\* after the loop: array_processing 2024-2033, beamforming 2288-2297
Finish ==
    /\ pc = "loop" /\ ~eotr
    /\ CASE arg.timestamp = "julsec" ->
               pc' = "returned" /\ err' = err /\ res' = res
         [] arg.timestamp = "mlabday" ->
               IF res = <<>>
               THEN \* res[:, 0] of an array of shape (0,)
                    pc' = "raised" /\ err' = "IndexError" /\ res' = res
               ELSE /\ pc' = "returned" /\ err' = err
                    /\ res' = [k \in 1..Len(res) |->
                                 [res[k] EXCEPT !.timestamp = Mlabday(@[2])]]
         [] OTHER ->
               pc' = "raised" /\ err' = "ValueError: timestamp" /\ res' = res
    /\ UNCHANGED <<arg, padded, ret, warns, prepv, newstart, offset, count, eotr, stored,
                   localv>>

Next == CheckRates \/ PrepareAP \/ PrepareBF \/ WindowAP \/ WindowBF \/ Finish

Spec == Init /\ [][Next]_vars

GridSpec == GridInit /\ [][Next]_vars

\* A call runs on until it returns or raises.
FairSpec == Spec /\ WF_vars(Next)

(***************************************************************************)
(* get_stream_offsets 1673-1717, called on its own.                        *)
(***************************************************************************)
OffsetTraces ==
    [rate : Rates, starttime : 0..MaxStart, npts : {3, 4}]

OffsetCalls ==
    {[func |-> "get_stream_offsets", stream |-> <<a, b>>,
      stime |-> t0, etime |-> t0 + d] :
        a \in OffsetTraces, b \in OffsetTraces,
        t0 \in 0..(MaxStart + 2), d \in {2, 4, 8}}

OffsetsInit == InitCall(OffsetCalls)

GetStreamOffsets ==
    /\ pc = "start" /\ arg.func = "get_stream_offsets"
    /\ IF StartTooEarly(arg.stream, arg.stime)
       THEN /\ pc' = "raised" /\ err' = "ValueError: start-time"
            /\ UNCHANGED <<spoint, epoint, warns>>
       ELSE IF EndTooLate(arg.stream, arg.etime)
       THEN /\ pc' = "raised" /\ err' = "ValueError: end-time"
            /\ UNCHANGED <<spoint, epoint, warns>>
       ELSE /\ pc' = "returned" /\ err' = err
            /\ spoint' = [i \in 1..Len(arg.stream) |->
                             SpointOf(arg.stream, arg.stime, i)]
            /\ epoint' = [i \in 1..Len(arg.stream) |->
                             EpointOf(arg.stream, arg.etime, i)]
            /\ warns' = OffsetWarnings(arg.stream)
    /\ UNCHANGED <<arg, padded, ret, grdpts_x, grdpts_y, geometry, time_shift_table,
                   nsamp, nstep, nf, detrended, loopv, localv>>

NextOffsets == GetStreamOffsets
SpecOffsets == OffsetsInit /\ [][NextOffsets]_vars

(***************************************************************************)
(* array_rotation_strain 1201-1574.  The call is [na, nrac, ts2, ts3,      *)
(* subarray, sigmau, cond]: na the columns of ts1, nrac the rows of        *)
(* array_coords, ts2 and ts3 whether the shape equals that of ts1,         *)
(* subarray the station indices, sigmau its shape, cond what the inversion *)
(* of the matrices of the geometry gives.                                  *)
(***************************************************************************)
\* np.linalg.inv succeeds ("ok"), succeeds with a condition number above
\* 100 ("ill") or raises LinAlgError ("singular")
Conds == {"ok", "ill", "singular"}
\* the shapes of sigmau: a scalar, a vector of na or of other length, an
\* array of shape (na, 3), any other shape
Sigmaus == {"scalar", "vector_na", "vector_other", "matrix_na_3", "other"}

RECURSIVE Increasing(_, _)
\* the increasing sequences of the elements of S that are above lo
Increasing(S, lo) ==
    {<<>>} \cup UNION {{<<x>> \o t : t \in Increasing(S, x)} :
                          x \in {y \in S : y > lo}}

StrainCalls ==
    UNION {[func : {"array_rotation_strain"}, na : {n}, nrac : {n, n + 1},
            ts2 : BOOLEAN, ts3 : BOOLEAN,
            subarray : Increasing(-1..n, -2),
            sigmau : Sigmaus, cond : Conds] : n \in 1..MaxNa}

StrainInit == InitCall(StrainCalls)

SeqRange(q) == {q[i] : i \in 1..Len(q)}

\* The underdetermined case taken to include 3 stations.
StationCountRaisesUpTo3(n_plus_1) == n_plus_1 <= 3

\* n_plus_1 < 3
StationCountRaises(n_plus_1) == n_plus_1 < 3
\* n_plus_1 == 3
StationCountWarns(n_plus_1) == n_plus_1 = 3

RaiseStrain(e) ==
    /\ pc' = "raised" /\ err' = e /\ UNCHANGED warns

\* 1201-1237
StrainValidate ==
    /\ pc = "start" /\ arg.func = "array_rotation_strain"
    /\ LET sub == SeqRange(arg.subarray)
           n_plus_1 == Len(arg.subarray)
       IN CASE ~arg.ts2 -> RaiseStrain("ValueError: ts1 and ts2")
            [] arg.ts2 /\ ~arg.ts3 -> RaiseStrain("ValueError: ts1 and ts3")
            [] arg.ts2 /\ arg.ts3 /\ arg.nrac # arg.na ->
                   RaiseStrain("ValueError: array_coords")
            [] OTHER ->
                   IF sub = {}
                   THEN \* min() of an empty sequence
                        RaiseStrain("ValueError: min")
                   ELSE IF SetMin(sub) < 0
                   THEN RaiseStrain("ValueError: station number < 0")
                   ELSE IF SetMax(sub) > arg.na
                   THEN RaiseStrain("ValueError: station number > Na")
                   ELSE IF \E x \in sub : x >= arg.nrac
                   THEN \* array_coords[subarray, :]
                        RaiseStrain("IndexError")
                   ELSE IF StationCountRaises(n_plus_1)
                   THEN RaiseStrain("ValueError: underdetermined")
                   ELSE /\ pc' = "invert" /\ err' = err
                        /\ warns' = IF StationCountWarns(n_plus_1)
                                    THEN warns \cup {"even-determined"}
                                    ELSE warns
    /\ UNCHANGED <<arg, padded, ret, prepv, loopv, localv>>

\* 1239-1574
StrainInvert ==
    /\ pc = "invert" /\ arg.func = "array_rotation_strain"
    /\ CASE arg.sigmau = "vector_other" ->
                RaiseStrain("ValueError: sigmau elements")
         [] arg.sigmau = "other" ->
                RaiseStrain("ValueError: sigmau dimensions")
         [] OTHER ->
                IF arg.cond = "singular"
                THEN RaiseStrain("LinAlgError")
                ELSE /\ pc' = "returned" /\ err' = err
                     /\ warns' = IF arg.cond = "ill"
                                 THEN warns \cup {"condition number"}
                                 ELSE warns
    /\ UNCHANGED <<arg, padded, ret, prepv, loopv, localv>>

NextStrain == StrainValidate \/ StrainInvert
SpecStrain == StrainInit /\ [][NextStrain]_vars

(***************************************************************************)
(* get_geometry 1577-1670 for coordsys 'xy', called on its own: once on    *)
(* the coordinates and once on the coordinates moved by arg.shift.         *)
(***************************************************************************)
Stations == (0..MaxCoord) \X (0..MaxCoord) \X (0..MaxCoord)

\* The means of the three columns are whole numbers, so that ColMean is the
\* mean.
WholeMeans(coords) ==
    \A c \in 1..3 :
        SeqSum([i \in 1..Len(coords) |-> coords[i][c]]) % Len(coords) = 0

StationLists ==
    {q \in [1..2 -> Stations] \cup [1..3 -> Stations] : WholeMeans(q)}

Shifts == {-1, 0, 1} \X {-1, 0, 1} \X {-1, 0, 1}

GeometryCalls ==
    [func : {"get_geometry"}, coords : StationLists, shift : Shifts]

\* every station moved by d
Translated(coords, d) ==
    [i \in 1..Len(coords) |->
        <<coords[i][1] + d[1], coords[i][2] + d[2], coords[i][3] + d[3]>>]

GeometryInit == InitCall(GeometryCalls)

GeometryOfCoords ==
    /\ pc = "start" /\ arg.func = "get_geometry"
    /\ ret' = <<GetGeometry(arg.coords)>>
    /\ pc' = "again"
    /\ UNCHANGED <<arg, err, warns, prepv, loopv, localv, padded>>

GeometryOfTranslated ==
    /\ pc = "again" /\ arg.func = "get_geometry"
    /\ ret' = Append(ret, GetGeometry(Translated(arg.coords, arg.shift)))
    /\ pc' = "returned"
    /\ UNCHANGED <<arg, err, warns, prepv, loopv, localv, padded>>

NextGeometry == GeometryOfCoords \/ GeometryOfTranslated
SpecGeometry == GeometryInit /\ [][NextGeometry]_vars

(***************************************************************************)
(* get_geometry for coordsys 'lonlat' and stations on the equator.         *)
(* Longitudes are in quarter degrees, lengths in quarter degrees of arc    *)
(* (27.8 km).                                                              *)
(***************************************************************************)
\* utlGeoKm(orig_lon, orig_lat, lon, lat): the offset from the origin to
\* the east and to the north, equirectangular at the latitude 0
UtlGeoKm(orig_lon, orig_lat, lon, lat) == <<lon - orig_lon, lat - orig_lat>>

\* lines 1622-1632
GetGeometryLonLat(coords) ==
    LET n == Len(coords)
        center_lon == ColMean(coords, 1)
        center_lat == ColMean(coords, 2)
        center_h == ColMean(coords, 3)
    IN [i \in 1..n |->
           LET xy == UtlGeoKm(center_lon, center_lat, coords[i][1], coords[i][2])
           IN <<xy[1], xy[2], coords[i][3] - center_h>>]

\* longitudes up to MaxSeam quarter degrees from the meridian of 180 degrees
SeamLons == {720 - k : k \in 0..MaxSeam} \cup {k - 720 : k \in 0..MaxSeam}

\* two stations on the equator whose mean longitude is a whole number
SeamLists ==
    {q \in [1..2 -> SeamLons \X {0} \X {0}] : WholeMeans(q)}

SeamCalls == [func : {"get_geometry lonlat"}, coords : SeamLists]

SeamInit == InitCall(SeamCalls)

GeometryOfLonLat ==
    /\ pc = "start" /\ arg.func = "get_geometry lonlat"
    /\ ret' = <<GetGeometryLonLat(arg.coords)>>
    /\ pc' = "returned"
    /\ UNCHANGED <<arg, err, warns, prepv, loopv, localv, padded>>

NextSeam == GeometryOfLonLat
SpecSeam == SeamInit /\ [][NextSeam]_vars

(***************************************************************************)
(* get_timeshift 321-363 with and without static_3D.  Here a slowness is   *)
(* in units of 0.1 s/km, a time shift in units of 0.1 s, vel_cor in km/s,  *)
(* and a cosine is kept in fifths, rounded down.                           *)
(***************************************************************************)
\* the largest r with r * r <= n
RECURSIVE RootFrom(_, _)
RootFrom(n, r) == IF (r + 1) * (r + 1) > n THEN r ELSE RootFrom(n, r + 1)
ISqrt(n) == RootFrom(n, 0)

\* np.cos(inc) for inc = np.arcsin(vel_cor*slow) if vel_cor*slow <= 1. and
\* inc = np.pi/2. otherwise (339-345): sqrt(1 - (vel_cor*slow)**2) or 0
CosInc(vel_cor, q) ==
    IF vel_cor * vel_cor * q <= 100
    THEN ISqrt((100 - vel_cor * vel_cor * q) \div 4)
    ELSE 0

\* The correction taken off, as the docstring writes it.
GetTimeshiftStaticMinus(geom, sll_x, sll_y, sl_s, gx, gy, vel_cor) ==
    [t \in (1..Len(geom)) \X (0..(gx - 1)) \X (0..(gy - 1)) |->
        LET sx == sll_x + t[2] * sl_s
            sy == sll_y + t[3] * sl_s
        IN sx * geom[t[1]][1] + sy * geom[t[1]][2]
           - (2 * geom[t[1]][3] * CosInc(vel_cor, sx * sx + sy * sy))
                 \div vel_cor]
\* the static_3D branch 333-348:
\* sx * geometry[:, 0] + sy * geometry[:, 1] + geometry[:, 2] * cos(inc) / vel_cor
GetTimeshiftStatic(geom, sll_x, sll_y, sl_s, gx, gy, vel_cor) ==
    [t \in (1..Len(geom)) \X (0..(gx - 1)) \X (0..(gy - 1)) |->
        LET sx == sll_x + t[2] * sl_s
            sy == sll_y + t[3] * sl_s
        IN sx * geom[t[1]][1] + sy * geom[t[1]][2]
           + (2 * geom[t[1]][3] * CosInc(vel_cor, sx * sx + sy * sy))
                 \div vel_cor]

\* centred geometries of two stations
MirrorLists ==
    {<<p, <<-p[1], -p[2], -p[3]>>>> :
        p \in {-1, 0, 1} \X {-1, 0, 1} \X {-1, 0, 1}}

ShiftCalls ==
    [func : {"get_timeshift"}, coords : MirrorLists,
     sll_x : {-4, 0}, sll_y : {-3, 0}, sl_s : {3, 4},
     grdpts_x : {1, 2}, grdpts_y : {1, 2}, vel_cor : {1, 2}]

ShiftInit == InitCall(ShiftCalls)

\* get_timeshift(..., static_3D=False)
TimeshiftPlanar ==
    /\ pc = "start" /\ arg.func = "get_timeshift"
    /\ ret' = <<GetTimeshift(arg.coords, arg.sll_x, arg.sll_y, arg.sl_s,
                             arg.grdpts_x, arg.grdpts_y)>>
    /\ pc' = "again"
    /\ UNCHANGED <<arg, err, warns, prepv, loopv, localv, padded>>

\* get_timeshift(..., vel_cor, static_3D=True) on the same geometry and grid
TimeshiftStatic ==
    /\ pc = "again" /\ arg.func = "get_timeshift"
    /\ ret' = Append(ret, GetTimeshiftStatic(arg.coords, arg.sll_x, arg.sll_y,
                                             arg.sl_s, arg.grdpts_x,
                                             arg.grdpts_y, arg.vel_cor))
    /\ pc' = "returned"
    /\ UNCHANGED <<arg, err, warns, prepv, loopv, localv, padded>>

NextShift == TimeshiftPlanar \/ TimeshiftStatic
SpecShift == ShiftInit /\ [][NextShift]_vars

(***************************************************************************)
(* SeismicArray._get_geometry 87-111.  The inventory is the sequence of    *)
(* its channels, each <<station code, coordinates>>; one number stands for *)
(* the coordinates of a channel, and 0 in geo for a station without entry. *)
(***************************************************************************)
StationCodes == {"XX.A", "XX.B"}
ChannelCoords == {1, 2}

Inventories ==
    UNION {[1..n -> StationCodes \X ChannelCoords] : n \in 1..MaxChannels}

InventoryCalls == [func : {"_get_geometry"}, inventory : Inventories]

InventoryInit == InitCall(InventoryCalls)

\* geo = {}
GeoStart ==
    /\ pc = "start" /\ arg.func = "_get_geometry"
    /\ ret' = <<[s \in StationCodes |-> 0]>>
    /\ pc' = "channels"
    /\ UNCHANGED <<arg, err, warns, prepv, loopv, localv, padded>>

\* this_coordinates not in geo.values()
NotInValues(geo, this_coordinates) ==
    \A s \in StationCodes : geo[s] # this_coordinates

\* the body of the loops for one channel (96-110)
GeoChannel ==
    /\ pc = "channels" /\ count < Len(arg.inventory)
    /\ LET station_code == arg.inventory[count + 1][1]
           this_coordinates == arg.inventory[count + 1][2]
           geo == ret[1]
       IN IF geo[station_code] # 0 /\ NotInValues(geo, this_coordinates)
          THEN /\ warns' = warns \cup {station_code}
               /\ ret' = ret
          ELSE /\ warns' = warns
               /\ ret' = <<[geo EXCEPT ![station_code] = this_coordinates]>>
    /\ count' = count + 1
    /\ UNCHANGED <<arg, pc, err, prepv, newstart, offset, eotr, res, stored,
                   localv, padded>>

\* return geo
GeoReturn ==
    /\ pc = "channels" /\ count = Len(arg.inventory)
    /\ pc' = "returned"
    /\ UNCHANGED <<arg, err, warns, prepv, loopv, localv, padded, ret>>

NextInventory == GeoStart \/ GeoChannel \/ GeoReturn
SpecInventory == InventoryInit /\ [][NextInventory]_vars

(***************************************************************************)
(* array_transff_wavenumber 1720-1762 and array_transff_freqslowness       *)
(* 1765-1823 for coordsys 'xy'.  Phases are in quarter turns: a wavenumber *)
(* is in units of (pi/2)/km, and a slowness times a frequency likewise.    *)
(***************************************************************************)
\* the smallest integer that is not below a / b, for b > 0
CeilDiv(a, b) == -((-a) \div b)

\* int(np.ceil((kmax + kstep / 10. - kmin) / kstep))
AxisPoints(kmin, kmax, kstep) == CeilDiv(10 * (kmax - kmin) + kstep, 10 * kstep)

\* np.exp(complex(0., phase)): real and imaginary part
CosQ(q) == <<1, 0, -1, 0>>[(q % 4) + 1]
SinQ(q) == <<0, 1, 0, -1>>[(q % 4) + 1]

\* abs(_sum) ** 2 for the sum of the exponentials of the phases
AbsSumSq(phases) ==
    LET re == SeqSum([k \in 1..Len(phases) |-> CosQ(phases[k])])
        im == SeqSum([k \in 1..Len(phases) |-> SinQ(phases[k])])
    IN re * re + im * im

\* transff[i, j] of array_transff_wavenumber before it is normalized
WavenumberResponse(coords, kx, ky) ==
    AbsSumSq([k \in 1..Len(coords) |-> coords[k][1] * kx + coords[k][2] * ky])

\* buff[k] of array_transff_freqslowness
FreqResponse(geom, sx, sy, f) ==
    AbsSumSq([l \in 1..Len(geom) |-> (geom[l][1] * sx + geom[l][2] * sy) * f])

\* cumtrapz(buff, dx=fstep), doubled: one value less than buff has
Cumtrapz2(buff, fstep) ==
    [k \in 1..(Len(buff) - 1) |->
        fstep * SeqSum([m \in 1..k |-> buff[m] + buff[m + 1]])]

\* the grid of one call: lim = (xmin, xmax, ymin, ymax)
GridCells(lim, step) ==
    (0..(AxisPoints(lim[1], lim[2], step) - 1))
        \X (0..(AxisPoints(lim[3], lim[4], step) - 1))

\* transff of array_transff_wavenumber before line 1761
WavenumberMap(a) ==
    LET coords == GetGeometry(a.coords)
    IN [c \in GridCells(a.lim, a.step) |->
           WavenumberResponse(coords, a.lim[1] + c[1] * a.step,
                              a.lim[3] + c[2] * a.step)]

\* buff of one slowness of array_transff_freqslowness
FreqBuffer(a, geom, sx, sy) ==
    [k \in 1..AxisPoints(a.fmin, a.fmax, a.fstep) |->
        FreqResponse(geom, sx, sy, a.fmin + (k - 1) * a.fstep)]

\* transff of array_transff_freqslowness before line 1822, doubled
FreqslownessMap(a) ==
    LET geom == GetGeometry(a.coords)
    IN [c \in GridCells(a.lim, a.step) |->
           LET area == Cumtrapz2(FreqBuffer(a, geom, a.lim[1] + c[1] * a.step,
                                            a.lim[3] + c[2] * a.step),
                                 a.fstep)
           IN area[Len(area)]]

\* transff /= transff.max(): every entry as <<numerator, denominator>>
Normalized(transff) ==
    LET top == SetMax({transff[c] : c \in DOMAIN transff})
    IN [c \in DOMAIN transff |-> <<transff[c], top>>]

\* two stations in the plane z = 0
PlaneLists ==
    {q \in [1..2 -> {0, 1, 2} \X {0, 1, 2} \X {0}] : WholeMeans(q)}

Limits ==
    {<<lx, lx + wx, ly, ly + wy>> :
        lx \in {-1, 0}, wx \in {0, 1}, ly \in {-1, 0}, wy \in {0, 1}}

\* The calls of array_transff_wavenumber.  A grid on which the response is
\* 0 everywhere is left out: there the rounding of the cosines decides what
\* the maximum is.
WavenumberCalls ==
    {a \in [func : {"array_transff_wavenumber"}, coords : PlaneLists,
            lim : Limits, step : {1, 2}] :
        \E c \in GridCells(a.lim, a.step) : WavenumberMap(a)[c] > 0}

\* The calls of array_transff_freqslowness, with the same proviso for the
\* calls of more than one frequency.
FreqslownessCalls ==
    {a \in [func : {"array_transff_freqslowness"}, coords : PlaneLists,
            lim : Limits, step : {1, 2}, fmin : {1, 2},
            fmax : {1, 2, 3}, fstep : {1}] :
        /\ a.fmin <= a.fmax
        /\ AxisPoints(a.fmin, a.fmax, a.fstep) >= 2 =>
              \E c \in GridCells(a.lim, a.step) : FreqslownessMap(a)[c] > 0}

TransffInit == InitCall(WavenumberCalls \cup FreqslownessCalls)

TransffWavenumber ==
    /\ pc = "start" /\ arg.func = "array_transff_wavenumber"
    /\ ret' = <<Normalized(WavenumberMap(arg))>>
    /\ pc' = "returned"
    /\ UNCHANGED <<arg, err, warns, prepv, loopv, localv, padded>>

TransffFreqslowness ==
    /\ pc = "start" /\ arg.func = "array_transff_freqslowness"
    /\ IF AxisPoints(arg.fmin, arg.fmax, arg.fstep) < 2
       THEN \* cumtrapz(buff, dx=fstep)[-1] of an array without elements
            pc' = "raised" /\ err' = "IndexError" /\ ret' = ret
       ELSE /\ ret' = <<Normalized(FreqslownessMap(arg))>>
            /\ pc' = "returned" /\ err' = err
    /\ UNCHANGED <<arg, warns, prepv, loopv, localv, padded>>

NextTransff == TransffWavenumber \/ TransffFreqslowness
SpecTransff == TransffInit /\ [][NextTransff]_vars

(***************************************************************************)
(* get_geometry called three times by one process: on coords, on other     *)
(* coordinates or not at all, and on coords again.  ret collects what the  *)
(* calls returned.                                                         *)
(***************************************************************************)
PairLists == {q \in StationLists : Len(q) = 2}

RepeatCalls ==
    [func : {"get_geometry twice"}, coords : PairLists, other : PlaneLists]

RepeatInit == InitCall(RepeatCalls)

\* The centre not set back to 0 at entry: every call that has returned has
\* moved it by one.
GeometryCallDrifting(left, coords) ==
    Translated(GetGeometry(coords), <<Len(left), 0, 0>>)
\* One call of get_geometry in a process in which the calls of left have
\* returned: geometry is a new array (1602, 1614) and the centre starts
\* from 0 (1599-1601), so nothing of left is read.
GeometryCall(left, coords) == GetGeometry(coords)

GeometryFirst ==
    /\ pc = "start" /\ arg.func = "get_geometry twice"
    /\ ret' = <<GeometryCall(ret, arg.coords)>>
    /\ pc' = "between"
    /\ UNCHANGED <<arg, err, warns, prepv, loopv, localv, padded>>

GeometryOther ==
    /\ pc = "between"
    /\ ret' = Append(ret, GeometryCall(ret, arg.other))
    /\ pc' = "again"
    /\ UNCHANGED <<arg, err, warns, prepv, loopv, localv, padded>>

GeometryRepeat ==
    /\ pc \in {"between", "again"} /\ arg.func = "get_geometry twice"
    /\ ret' = Append(ret, GeometryCall(ret, arg.coords))
    /\ pc' = "returned"
    /\ UNCHANGED <<arg, err, warns, prepv, loopv, localv, padded>>

NextRepeat == GeometryFirst \/ GeometryOther \/ GeometryRepeat
SpecRepeat == RepeatInit /\ [][NextRepeat]_vars

(***************************************************************************)
(* Properties of the grid and of the backazimuth, checked under GridSpec.  *)
(***************************************************************************)
Bodies == count >= 1 /\ pc \in {"loop", "returned", "raised"}

\* C1: for every selected grid point other than (0, 0) the
\* backazimuth of the loop body and of every record lies in [0, 360) degrees.
C1_BazIn0To360 ==
    /\ (Bodies /\ <<slow_x, slow_y>> # <<0, 0>>) => (0 <= baz /\ baz < 360000)
    /\ \A k \in 1..Len(res) :
          res[k].slow2 # 0 => (0 <= res[k].baz /\ res[k].baz < 360000)

\* n is floor((slm - sll) / sl_s + 0.5) + 1
IsGridCount(n, sll, slm, sl_s) ==
    /\ 2 * sl_s * (n - 1) <= 2 * (slm - sll) + sl_s
    /\ 2 * (slm - sll) + sl_s < 2 * sl_s * n

OnGrid(sx, sy) ==
    \E ix \in 0..(grdpts_x - 1), iy \in 0..(grdpts_y - 1) :
        sx = arg.sll_x + ix * arg.sl_s /\ sy = arg.sll_y + iy * arg.sl_s

\* C2: the number of grid points per axis is floor((slm - sll)/sl_s + 0.5)
\* + 1, and the slowness of every loop body and of every record is
\* (sll_x + ix*sl_s, sll_y + iy*sl_s) for indices inside the grid.
C2_GridExact ==
    /\ pc \notin {"start", "prepare"} =>
          /\ IsGridCount(grdpts_x, arg.sll_x, arg.slm_x, arg.sl_s)
          /\ IsGridCount(grdpts_y, arg.sll_y, arg.slm_y, arg.sl_s)
    /\ Bodies => OnGrid(slow_x, slow_y)
    /\ \A k \in 1..Len(res) :
          IF arg.func = "beamforming"
          THEN OnGrid(res[k].slow_x, res[k].slow_y)
          ELSE \E ix \in 0..(grdpts_x - 1), iy \in 0..(grdpts_y - 1) :
                  LET sx == arg.sll_x + ix * arg.sl_s
                      sy == arg.sll_y + iy * arg.sl_s
                  IN res[k].slow2 = sx * sx + sy * sy

\* C2 witness: a record on the last point of a grid whose range is not a
\* multiple of the step.
C2_Witness ==
    /\ arg.func = "beamforming" /\ res # <<>>
    /\ ((arg.slm_x - arg.sll_x) % arg.sl_s) # 0
    /\ res[1].slow_x = arg.sll_x + (grdpts_x - 1) * arg.sl_s
    /\ grdpts_x >= 2

(***************************************************************************)
(* Properties of the call and of its loop, checked under Spec.             *)
(***************************************************************************)
RatesDiffer == \E i \in 1..Len(arg.stream) : arg.stream[i].rate # arg.stream[1].rate

\* C3: with a trace whose sampling rate differs from the first trace's the
\* call raises the sampling-rate error, and no geometry, time-shift table,
\* offsets or window have been computed and store has not been called.
C3_RatesRaiseFirst ==
    RatesDiffer =>
        /\ pc \in {"start", "raised"}
        /\ pc = "raised" => err = "ValueError: sampling rates"
        /\ geometry = <<>> /\ time_shift_table = <<>> /\ spoint = <<>>
        /\ grdpts_x = 0 /\ count = 0 /\ stored = <<>> /\ res = <<>>

\* C3 witness: the call has raised for streams of 1 Hz and 2 Hz traces.
C3_Witness ==
    /\ RatesDiffer /\ pc = "raised" /\ err = "ValueError: sampling rates"
    /\ arg.store

\* 1. / slow > vel_thres, written out
FastEnough(q, v) == v <= 0 \/ q = 0 \/ v * v * q < 16

\* C4: a body of array_processing that reaches the threshold test appends
\* one record iff relpow > semb_thres and 1/slow > vel_thres; otherwise it
\* appends nothing and raises nothing; either way offset, newstart and eotr
\* are advanced in the same way.
C4_EmitIffAbove ==
    [][(pc = "loop" /\ eotr /\ arg.func = "array_processing"
        /\ pc' = "loop" /\ ~Stuck)
       => /\ IF relpow' > arg.semb_thres /\ FastEnough(slow2', arg.vel_thres)
             THEN /\ Len(res') = Len(res) + 1
                  /\ SubSeq(res', 1, Len(res)) = res
                  /\ res'[Len(res')].timestamp = Julsec(newstart)
                  /\ res'[Len(res')].relpow = relpow'
             ELSE res' = res
          /\ count' = count + 1
          /\ offset' = offset + nstep
          /\ newstart' = newstart + nstep * Delta(Fs)
          /\ eotr' = (newstart + (nsamp + nstep) * Delta(Fs) <= arg.etime)]_vars

\* C4 witness: array_processing returned after three windows of which some
\* were recorded and some skipped, one of them for its velocity alone.
C4_Witness ==
    /\ arg.func = "array_processing" /\ pc = "returned" /\ count = 3
    /\ Len(res) = 1 /\ relpow > arg.semb_thres
    /\ ~FastEnough(slow2, arg.vel_thres)

\* C5: with win_len > 0, nsamp = floor(win_len * fs) and
\* nstep = floor(nsamp * win_frac), and at the start of the k-th window
\* offset = k * nstep and newstart = stime + k * nstep / fs.
C5_OffsetAndStart ==
    (pc = "loop" /\ arg.win_len > 0) =>
        /\ Delta(Fs) * nsamp <= arg.win_len
        /\ arg.win_len < Delta(Fs) * (nsamp + 1)
        /\ 4 * nstep <= nsamp * arg.win_frac
        /\ nsamp * arg.win_frac < 4 * (nstep + 1)
        /\ offset = count * nstep
        /\ newstart = arg.stime + count * nstep * Delta(Fs)

\* C5 witness: the loop stands at the start of its third window with a step
\* that is a proper part of the window.
C5_Witness ==
    /\ pc = "loop" /\ eotr /\ arg.win_len > 0 /\ count = 2
    /\ 0 < nstep /\ nstep < nsamp /\ offset = 2 * nstep

\* the end of the window of the last body
LastWindowEnd == (newstart - nstep * Delta(Fs)) + nsamp * Delta(Fs)

\* C6: every window that was processed ends at or before etime,
\* and the loop goes on iff the next window ends at or before etime.
C6_AllWindowsInRange ==
    (pc \in {"loop", "returned"} /\ count >= 1) =>
        /\ LastWindowEnd <= arg.etime
        /\ pc = "loop" => (eotr <=> newstart + nsamp * Delta(Fs) <= arg.etime)

\* C7: every call whose loop starts with nsamp > 0 and 0 < win_frac <= 1
\* leaves the loop: eotr becomes false or the call raises.
C7_LoopEnds ==
    (pc = "loop" /\ nsamp > 0 /\ 0 < arg.win_frac /\ arg.win_frac <= 4)
        ~> (pc \in {"raised", "quit", "returned"} \/ (pc = "loop" /\ ~eotr))

(***************************************************************************)
(* Properties of get_stream_offsets, checked under SpecOffsets.            *)
(***************************************************************************)
\* the sample period of the first trace, stream[0].stats.delta
Period == Delta(arg.stream[1].rate)

\* C8: get_stream_offsets raises exactly when stime precedes the latest
\* start of a trace by more than half a sample period or etime follows the
\* earliest end of a trace by more than half a sample period; otherwise it
\* returns one start and one end offset for every trace.
C8_RaisesIffNotCovered ==
    pc # "start" =>
        LET early == \E i \in 1..Len(arg.stream) :
                        2 * (arg.stream[i].starttime - arg.stime) > Period
            late == \E i \in 1..Len(arg.stream) :
                        2 * (arg.etime - (arg.stream[i].starttime
                                + (arg.stream[i].npts - 1)
                                  * (4 \div arg.stream[i].rate))) > Period
        IN /\ pc = "raised" <=> (early \/ late)
           /\ pc = "raised" => (spoint = <<>> /\ epoint = <<>>)
           /\ pc = "returned" => /\ Len(spoint) = Len(arg.stream)
                                 /\ Len(epoint) = Len(arg.stream)

\* C8 witness: a request that starts exactly half a sample period before
\* the latest start and ends exactly half a sample period after the
\* earliest end is accepted.
C8_Witness ==
    /\ pc = "returned"
    /\ 2 * (Slatest(arg.stream) - arg.stime) = Period
    /\ 2 * (arg.etime - Eearliest(arg.stream)) = Period
    /\ arg.stream[1].starttime # arg.stream[2].starttime

\* the instant of the sample that spoint[i] addresses in trace i
StartInstant(i) ==
    arg.stream[i].starttime + spoint[i] * Delta(arg.stream[i].rate)

\* C9: for an accepted request over traces of one sampling period delta the
\* samples addressed by the start offsets of any two traces are less than
\* delta apart.
C9_StartsAligned ==
    (pc = "returned" /\ arg.func = "get_stream_offsets"
     /\ arg.stream[1].rate = arg.stream[2].rate) =>
        \A i, j \in 1..Len(arg.stream) :
            /\ StartInstant(i) - StartInstant(j) < Period
            /\ StartInstant(j) - StartInstant(i) < Period

(***************************************************************************)
(* Properties of array_rotation_strain, checked under SpecStrain.          *)
(***************************************************************************)
\* Everything but the number of stations is as the routine requires.
StrainInputsFit ==
    /\ arg.ts2 /\ arg.ts3 /\ arg.nrac = arg.na
    /\ \A i \in 1..Len(arg.subarray) :
          0 <= arg.subarray[i] /\ arg.subarray[i] < arg.na
    /\ arg.sigmau \in {"scalar", "vector_na", "matrix_na_3"}
    /\ arg.cond # "singular"

\* C10: with 3 stations in subarray the routine warns and still returns a
\* result; with fewer than 3 it raises and returns nothing; with 4 or more
\* it gives no warning about the number of stations.
C10_StationCount ==
    pc # "start" =>
        /\ Len(arg.subarray) < 3 => pc = "raised"
        /\ (Len(arg.subarray) = 3 /\ StrainInputsFit) =>
              /\ pc \in {"invert", "returned"} /\ err = ""
              /\ "even-determined" \in warns
        /\ Len(arg.subarray) >= 4 => "even-determined" \notin warns
        /\ (Len(arg.subarray) >= 4 /\ StrainInputsFit) =>
              pc \in {"invert", "returned"}

\* C10 witness: a call with 3 stations has returned with the warning, and
\* with nothing else the matter.
C10_Witness ==
    /\ arg.func = "array_rotation_strain" /\ pc = "returned"
    /\ Len(arg.subarray) = 3 /\ arg.na = 4
    /\ warns = {"even-determined"}

(***************************************************************************)
(* Properties of get_geometry, checked under SpecGeometry.                 *)
(***************************************************************************)
\* C11: for coordsys 'xy' the geometry of the stations moved by one
\* vector (dx, dy, dz) is the geometry of the stations where they were.
C11_TranslationInvariant ==
    (pc = "returned" /\ arg.func = "get_geometry") =>
        /\ Len(ret[1]) = Len(arg.coords)
        /\ ret[2] = ret[1]

\* C11 witness: three stations that are not on one spot, moved along all
\* three axes, have given the same geometry twice.
C11_Witness ==
    /\ pc = "returned" /\ arg.func = "get_geometry"
    /\ Len(arg.coords) = 3
    /\ \A c \in 1..3 : arg.shift[c] # 0 /\ ret[1][1][c] # 0
    /\ ret[2] = ret[1]

C13_TimestampRejectedFirst ==
    (arg.func \in {"array_processing", "beamforming"}
        /\ arg.timestamp \notin {"julsec", "mlabday"}) =>
        count = 0 /\ stored = <<>>

\* C14: beamforming called with a method other than 'DLS', 'PWS' or 'SWP'
\* raises at entry: no window is scored, store is not invoked, no record is
\* appended and the call does not return.
C14_MethodRejectedAtEntry ==
    (arg.func = "beamforming" /\ arg.method \notin {"DLS", "PWS", "SWP"}) =>
        count = 0 /\ stored = <<>> /\ res = <<>> /\ pc # "returned"

StoreIndices == [k \in 1..count |-> k - 1]

\* C15: a supplied store callback is invoked once per processed window, in
\* window order, with the indices 0, 1, 2, ... whether or not the window
\* gives a record; when the callback raises, the call raises and no later
\* window is processed.
C15_StoreOncePerWindow ==
    /\ [](/\ arg.store => stored = StoreIndices
          /\ ~arg.store => stored = <<>>
          /\ err = "store" => pc = "raised")
    /\ [][/\ err' = "store" => pc' = "raised" /\ count' = count
          /\ err # "store"]_vars

C15_Witness ==
    /\ arg.store /\ count >= 2 /\ Len(res) < count
    /\ stored = <<0, 1>>

\* C16: the time-shift table is never modified after get_timeshift returned
\* it, for array_processing and for each method of beamforming.
C16_TableNeverModified ==
    (arg.func \in {"array_processing", "beamforming"}
        /\ time_shift_table # <<>>) =>
        time_shift_table = GetTimeshift(GetGeometry(arg.coords), arg.sll_x,
                                        arg.sll_y, arg.sl_s, grdpts_x, grdpts_y)

\* C17: when array_processing or beamforming has returned or raised, the
\* samples of the caller's traces are what they were before the call.
C17_DataReadOnly ==
    (arg.func \in {"array_processing", "beamforming"}
        /\ pc \in {"returned", "raised", "quit"}) => ~detrended

\* C18: beamforming fills the missing trailing samples of a short shifted
\* window with zeros.
C18_ZeroPadded ==
    arg.func = "beamforming" => padded \subseteq {0}

ShortWindow ==
    \E i \in 1..Len(arg.stream), x \in 0..(grdpts_x - 1),
       y \in 0..(grdpts_y - 1) : ShiftedLen(i, x, y) < nsamp

\* C19: a window in which a station's data runs out does not end the run of
\* DLS, PWS or SWP: the loop goes on to the next window.
C19_ShortWindowSkipped ==
    [][(/\ pc = "loop" /\ eotr /\ arg.func = "beamforming"
        /\ arg.method \in {"DLS", "PWS", "SWP"} /\ ~arg.store
        /\ ShortWindow) => pc' = "loop"]_vars

\* C20: when the computed nsamp is not positive, beamforming ends the whole
\* run before the loop: no window is scored, store is never invoked and
\* nothing is returned.
C20_SmallWindowAborts ==
    /\ (arg.func = "beamforming" /\ spoint # <<>> /\ nsamp <= 0) =>
          /\ pc = "quit" /\ err = "SystemExit"
          /\ count = 0 /\ stored = <<>> /\ res = <<>>
    /\ (arg.func = "beamforming" /\ spoint # <<>>
          /\ 0 <= arg.win_len /\ arg.win_len < Delta(Fs)) => pc = "quit"
    /\ pc = "quit" => arg.func = "beamforming" /\ nsamp <= 0

C20_Witness ==
    /\ pc = "quit" /\ err = "SystemExit" /\ arg.win_len = 0 /\ nsamp = 0
    /\ arg.store /\ arg.method = "DLS"

(***************************************************************************)
(* Properties of the result table, checked under Spec.                     *)
(***************************************************************************)
\* the time stamp of the instant t in the convention of the table: seconds
\* inside the loop and for 'julsec', days once 'mlabday' has returned
StampOf(t) ==
    IF pc = "returned" /\ arg.timestamp = "mlabday" THEN Mlabday(t)
    ELSE Julsec(t)

\* s is not later than t, for time stamps of one convention
StampLeq(s, t) == s[1] < t[1] \/ (s[1] = t[1] /\ s[2] <= t[2])

\* C21: beamforming keeps one record per processed window, in order: after
\* k windows res has k records, the k-th (from 0) stamped with the instant
\* stime + k*nstep/fs, so the time stamps never decrease; a pass of the
\* loop appends one record and leaves the earlier ones as they are.
C21_OneRecordPerWindow ==
    /\ [](arg.func = "beamforming" =>
            /\ Len(res) = count
            /\ \A k \in 1..Len(res) :
                  res[k].timestamp =
                      StampOf(arg.stime + (k - 1) * nstep * Delta(Fs))
            /\ \A k \in 1..(Len(res) - 1) :
                  StampLeq(res[k].timestamp, res[k + 1].timestamp))
    /\ [][(arg.func = "beamforming" /\ pc = "loop" /\ pc' = "loop") =>
            /\ SubSeq(res', 1, Len(res)) = res
            /\ Len(res') = IF Stuck THEN Len(res) ELSE Len(res) + 1]_vars

C21_Witness ==
    /\ arg.func = "beamforming" /\ pc = "returned" /\ nstep > 0
    /\ count >= 2 /\ Len(res) = count
    /\ res[1].timestamp # res[2].timestamp

\* C22: with win_len < 0 array_processing and beamforming process one
\* window: the body runs once, store is invoked at most once, with index 0,
\* and at most one record is returned.
C22_WholeTraceOnce ==
    (arg.func \in {"array_processing", "beamforming"} /\ arg.win_len < 0) =>
        /\ count <= 1 /\ Len(res) <= 1
        /\ stored \in {<<>>, <<0>>}

Apart(a, b) == IF a >= b THEN a - b ELSE b - a
Arc(a, b) == SetMin({Apart(a, b), 1440 - Apart(a, b)})

\* C24: the centred geometry of two stations on either side of the
\* meridian of 180 degrees places them as far apart as they are: (180, 0)
\* and (-179.5, 0) about 55 km, not about 39,950 km.
C24_SeamDistance ==
    (arg.func = "get_geometry lonlat" /\ pc = "returned") =>
        Apart(ret[1][1][1], ret[1][2][1])
            = Arc(arg.coords[1][1], arg.coords[2][1])

(***************************************************************************)
(* Property of the time-shift table, checked under SpecShift.              *)
(***************************************************************************)
\* the slowness of the grid index k on an axis that starts at sll
GridSlowness(sll, k) == sll + k * arg.sl_s

\* the fifths of cos(inc) at the grid point (k, l)
CosFifths(k, l) ==
    LET vs2 == arg.vel_cor * arg.vel_cor
                   * (GridSlowness(arg.sll_x, k) * GridSlowness(arg.sll_x, k)
                      + GridSlowness(arg.sll_y, l) * GridSlowness(arg.sll_y, l))
    IN IF vs2 > 100 THEN 0
       ELSE CHOOSE c \in 0..5 : 4 * c * c <= 100 - vs2
                                /\ 4 * (c + 1) * (c + 1) > 100 - vs2

BandInRange ==
    0 <= arg.frqlow /\ arg.frqlow <= arg.frqhigh /\ arg.frqhigh <= 4 * Fs

\* C26: for a band with 0 <= frqlow <= frqhigh <= fs/2 the bins nlow..nhigh
\* that array_processing keeps are at least one and lie in 1..nfft/2 - 1.
C26_BinsNonEmpty ==
    (arg.func = "array_processing" /\ spoint # <<>> /\ nsamp > 0
        /\ BandInRange) =>
        LET nfft == NextPow2(nsamp)
            nlow == Nlow(arg.frqlow, Fs, nfft)
            nhigh == Nhigh(arg.frqhigh, Fs, nfft)
        IN /\ 1 <= nlow /\ nlow <= nhigh /\ nhigh <= nfft \div 2 - 1
           /\ nf = nhigh - nlow + 1 /\ nf >= 1

(***************************************************************************)
(* Property of SeismicArray._get_geometry, checked under SpecInventory.    *)
(***************************************************************************)
\* the channels of the station s in the inventory, by position
ChannelsOf(s) == {k \in 1..Len(arg.inventory) : arg.inventory[k][1] = s}

FirstChannelOf(s) == SetMin(ChannelsOf(s))

\* C27: _get_geometry returns for every station the coordinates of its
\* first channel, and has warned about exactly the stations of which a
\* later channel has other coordinates.
C27_FirstChannelKept ==
    (arg.func = "_get_geometry" /\ pc = "returned") =>
        \A s \in StationCodes :
            IF ChannelsOf(s) = {}
            THEN ret[1][s] = 0 /\ s \notin warns
            ELSE /\ ret[1][s] = arg.inventory[FirstChannelOf(s)][2]
                 /\ s \in warns <=>
                       \E k \in ChannelsOf(s) :
                           arg.inventory[k][2]
                               # arg.inventory[FirstChannelOf(s)][2]
\* C28: a run of array_processing whose windows are all skipped by the
\* thresholds returns an empty table, for 'julsec' and for 'mlabday'.
C28_AllSkippedReturns ==
    (arg.func = "array_processing" /\ arg.timestamp \in {"julsec", "mlabday"}
        /\ pc # "loop" /\ ~eotr /\ count >= 1 /\ res = <<>>) =>
        pc = "returned" /\ err = ""
\* C29: the slowness components array_processing and beamforming report
\* for a window lie inside the requested grid: sll_x <= slow_x <= slm_x and
\* sll_y <= slow_y <= slm_y.
C29_SlownessInGrid ==
    (arg.func \in {"array_processing", "beamforming"} /\ count >= 1) =>
        /\ arg.sll_x <= slow_x /\ slow_x <= arg.slm_x
        /\ arg.sll_y <= slow_y /\ slow_y <= arg.slm_y

(***************************************************************************)
(* Property of the station numbers of array_rotation_strain, checked under *)
(* SpecStrain.                                                             *)
(***************************************************************************)
\* the errors of the checks of 1205-1225
ValidationErrors ==
    {"ValueError: ts1 and ts2", "ValueError: ts1 and ts3",
     "ValueError: array_coords", "ValueError: min",
     "ValueError: station number < 0", "ValueError: station number > Na"}

\* C30: a subarray that has passed the checks of the station numbers holds
\* only indices s with 0 <= s < Na, and no access by such an index goes out
\* of range.
C30_AcceptedIndicesValid ==
    (arg.func = "array_rotation_strain" /\ pc # "start"
        /\ err \notin ValidationErrors) =>
        /\ \A s \in SeqRange(arg.subarray) : 0 <= s /\ s < arg.na
        /\ err # "IndexError"

====
